---- MODULE Spec2Model ----
(***************************************************************************)
(* A model of the product catalog repository of chirik:                    *)
(*   internal/repository/repository.go  (RedisRepository, two variants of  *)
(*       seedData / verifySeedData: the large-minimum one at lines 1-489   *)
(*       and the small-minimum one at lines 491-875)                       *)
(*   internal/server/server.go          (the gRPC handlers)                *)
(* The Redis store is a function from keys to stored JSON values, the      *)
(* RediSearch index a function from keys to indexed documents.             *)
(***************************************************************************)
EXTENDS Integers, Sequences, FiniteSets, TLC

(***************************************************************************)
(* Bounds of the model.                                                    *)
(***************************************************************************)
\* The largest configured minimum (targetSeedProducts / minSeedProducts are
\* taken as a configuration value; the shipped values are 100000 and 5).
MaxMinimum == 7
\* How many distinct values gofakeit.UUID() can draw.
MaxUUID == 3
\* How many records beyond the base records the store may hold at startup.
MaxExtra == 2

(***************************************************************************)
(* Program constants.                                                      *)
(***************************************************************************)
productsKeyPrefix == "product:"
minSeedProducts == 5
MaxInt32 == 2147483647
MinInt32 == -MaxInt32 - 1

(***************************************************************************)
(* time.Time: the wall-clock instant (UnixNano) and whether the value      *)
(* carries a monotonic reading, as every result of time.Now() does.        *)
(***************************************************************************)
ZeroTime == [wall |-> 0, mono |-> FALSE]
Now(clk) == [wall |-> clk, mono |-> TRUE]
IsZero(t) == t.wall = 0

\* var seedProducts: the five base records (CreatedAt left zero).
seedProducts ==
  << [ID |-> "seed-1", Name |-> "Laptop Pro 15",
      Description |-> "High-performance laptop with 16GB RAM and 512GB SSD",
      Price |-> 129999, Category |-> "Electronics", Stock |-> 50,
      CreatedAt |-> ZeroTime],
     [ID |-> "seed-2", Name |-> "Wireless Mouse",
      Description |-> "Ergonomic wireless mouse with long battery life",
      Price |-> 2999, Category |-> "Electronics", Stock |-> 200,
      CreatedAt |-> ZeroTime],
     [ID |-> "seed-3", Name |-> "Office Chair",
      Description |-> "Comfortable ergonomic office chair with lumbar support",
      Price |-> 19999, Category |-> "Furniture", Stock |-> 30,
      CreatedAt |-> ZeroTime],
     [ID |-> "seed-4", Name |-> "Coffee Maker",
      Description |-> "Automatic drip coffee maker with programmable timer",
      Price |-> 7999, Category |-> "Appliances", Stock |-> 75,
      CreatedAt |-> ZeroTime],
     [ID |-> "seed-5", Name |-> "Running Shoes",
      Description |-> "Lightweight running shoes with breathable mesh",
      Price |-> 8999, Category |-> "Sports", Stock |-> 120,
      CreatedAt |-> ZeroTime] >>

\* var seedCategories.
seedCategories ==
  << "Electronics", "Home", "Sports", "Outdoors", "Health", "Beauty",
     "Automotive", "Toys", "Books" >>

BaseIDs == { seedProducts[i].ID : i \in 1..Len(seedProducts) }

(***************************************************************************)
(* Keys.                                                                   *)
(***************************************************************************)
keyFor(id) == productsKeyPrefix \o id

\* strings.TrimPrefix(key, productsKeyPrefix)
TrimPrefix(key) ==
  IF Len(key) >= Len(productsKeyPrefix)
     /\ SubSeq(key, 1, Len(productsKeyPrefix)) = productsKeyPrefix
  THEN SubSeq(key, Len(productsKeyPrefix) + 1, Len(key))
  ELSE key

(***************************************************************************)
(* encoding/json. A stored value is the JSON object of a Product (the      *)
(* field names are the json tags) or bytes that do not decode. Prices are  *)
(* in cents. Marshalling writes the wall-clock instant of CreatedAt; the   *)
(* monotonic reading is not part of the encoding.                          *)
(***************************************************************************)
Corrupt == [corrupt |-> TRUE]

Marshal(p) ==
  [id |-> p.ID, name |-> p.Name, description |-> p.Description,
   price |-> p.Price, category |-> p.Category, stock |-> p.Stock,
   created_at |-> p.CreatedAt.wall]

\* A float64 NaN in Price, which json.Marshal refuses (UnsupportedValueError);
\* coded as a number that no price in cents takes.
NaN == -1
CanMarshal(p) == p.Price # NaN

CanUnmarshal(data) == data # Corrupt

Unmarshal(data) ==
  [ID |-> data.id, Name |-> data.name, Description |-> data.description,
   Price |-> data.price, Category |-> data.category, Stock |-> data.stock,
   CreatedAt |-> [wall |-> data.created_at, mono |-> FALSE]]

(***************************************************************************)
(* State.                                                                  *)
(***************************************************************************)
VARIABLES
  variant,        \* "large" or "small": which seedData / verifySeedData is built
  minimum,        \* the configured minimum (targetSeedProducts / minSeedProducts)
  store,          \* Redis: key -> stored value, defined on the keys present
  keyOrder,       \* the order in which Redis enumerates the keys present
  index,          \* RediSearch: key -> indexed document
  indexUp,        \* whether calls to the search index succeed
  clock,          \* time.Now().UnixNano()
  searchEnabled,  \* RedisRepository.searchEnabled (search is set with it)
  pc,             \* where the process is: NewRedisRepository's steps, then serving
  run,            \* how many times the process was started against this store
  seed,           \* the locals of seedData
  verifyErr,      \* whether verifySeedData returned an error
  storeLog,       \* the keys written by client.Set since this process started
  indexLog,       \* the keys handed to search.Index since this process started
  hist,           \* what earlier steps saw and called, for stating the properties
  last,           \* the last call made to the repository and its outcome
  made,           \* ID -> the records successful CreateProduct calls handed back
  main,           \* main(): the gRPC server, the calls of Close, how it ended
  listing         \* the locals of a scan-path ListProducts call in progress

vars == << variant, minimum, store, keyOrder, index, indexUp, clock,
           searchEnabled, pc, run, seed, verifyErr, storeLog, indexLog, hist,
           last, made, main, listing >>

Keys(st) == DOMAIN st
NoProduct == [none |-> TRUE]
\* A key that holds a value of another Redis type: GET answers WRONGTYPE.
WrongType == [wrongtype |-> TRUE]

EmptyStore == [k \in {} |-> Corrupt]

RECURSIVE SetToSeq(_)
SetToSeq(S) ==
  IF S = {} THEN << >>
  ELSE LET x == CHOOSE y \in S : TRUE IN << x >> \o SetToSeq(S \ {x})

SeqToSet(q) == { q[j] : j \in 1..Len(q) }

(***************************************************************************)
(* CreateProduct (repository.go 300-333, 693-726): what the call does to   *)
(* the product it is handed, to the store and to the index, when the Set   *)
(* succeeds (setOK) or fails.                                              *)
(***************************************************************************)
\* lines 301-306: the ID and the timestamp are assigned when absent.
WithDefaults(p, clk) ==
  [p EXCEPT !.ID = IF p.ID = "" THEN ToString(clk) ELSE p.ID,
            !.CreatedAt = IF IsZero(p.CreatedAt) THEN Now(clk) ELSE p.CreatedAt]

\* client.Set(ctx, key, data, 0): the value is written whether or not the key
\* is already present.
SetValue(st, key, data) == (key :> data) @@ st

SetOrder(st, order, key) ==
  IF key \in Keys(st) THEN order ELSE Append(order, key)

\* lines 320-325: the document handed to the index.
Document(p) ==
  [name |-> p.Name, description |-> p.Description, category |-> p.Category,
   price |-> p.Price, stock |-> p.Stock]

\* (A variant that reports a failed index write as the failure of the call.)
CreateProductStrict(p, setOK) ==
  LET q    == WithDefaults(p, clock)
      key  == keyFor(q.ID)
      data == Marshal(q)
  IN  IF ~CanMarshal(q)
      THEN [product |-> q, err |-> "marshal", store |-> store,
            keyOrder |-> keyOrder, index |-> index, storeLog |-> storeLog,
            indexLog |-> indexLog]
      ELSE IF ~setOK
      THEN [product |-> q, err |-> "set", store |-> store, keyOrder |-> keyOrder,
            index |-> index, storeLog |-> storeLog, indexLog |-> indexLog]
      ELSE [product |-> q,
            err |-> IF searchEnabled /\ ~indexUp THEN "index" ELSE "none",
            store |-> SetValue(store, key, data),
            keyOrder |-> SetOrder(store, keyOrder, key),
            index |-> IF searchEnabled /\ indexUp
                      THEN (key :> Document(q)) @@ index ELSE index,
            storeLog |-> Append(storeLog, key),
            indexLog |-> IF searchEnabled THEN Append(indexLog, key)
                         ELSE indexLog]

CreateProduct(p, setOK) ==
  LET q    == WithDefaults(p, clock)
      key  == keyFor(q.ID)
      data == Marshal(q)
  IN  IF ~CanMarshal(q)
      THEN [product |-> q, err |-> "marshal", store |-> store,
            keyOrder |-> keyOrder, index |-> index, storeLog |-> storeLog,
            indexLog |-> indexLog]
      ELSE IF ~setOK
      THEN [product |-> q, err |-> "set", store |-> store, keyOrder |-> keyOrder,
            index |-> index, storeLog |-> storeLog, indexLog |-> indexLog]
      ELSE [product |-> q, err |-> "none",
            store |-> SetValue(store, key, data),
            keyOrder |-> SetOrder(store, keyOrder, key),
            index |-> IF searchEnabled /\ indexUp
                      THEN (key :> Document(q)) @@ index ELSE index,
            storeLog |-> Append(storeLog, key),
            indexLog |-> IF searchEnabled THEN Append(indexLog, key)
                         ELSE indexLog]

\* (A variant of GetProduct without the redis.Nil test.)
GetProductWithoutNil(id, getOK) ==
  LET key == keyFor(id) IN
  IF ~getOK \/ key \notin DOMAIN store \/ store[key] = [wrongtype |-> TRUE]
  THEN [outcome |-> "readerr", product |-> [none |-> TRUE]]
  ELSE IF ~CanUnmarshal(store[key])
  THEN [outcome |-> "decodeerr", product |-> [none |-> TRUE]]
  ELSE [outcome |-> "ok", product |-> Unmarshal(store[key])]

(***************************************************************************)
(* GetProduct (repository.go 335-351, 728-744).                            *)
(***************************************************************************)
GetProduct(id, getOK) ==
  LET key == keyFor(id) IN
  IF ~getOK THEN [outcome |-> "readerr", product |-> NoProduct]
  ELSE IF key \notin Keys(store)
  THEN [outcome |-> "notfound", product |-> NoProduct]
  ELSE IF store[key] = WrongType
  THEN [outcome |-> "readerr", product |-> NoProduct]
  ELSE IF ~CanUnmarshal(store[key])
  THEN [outcome |-> "decodeerr", product |-> NoProduct]
  ELSE [outcome |-> "ok", product |-> Unmarshal(store[key])]

(***************************************************************************)
(* int32 arithmetic: Go wraps on overflow. (Sums and products are formed   *)
(* without leaving the 32-bit range.)                                      *)
(***************************************************************************)
AddInt32(a, b) ==
  IF a >= 0 /\ b > MaxInt32 - a
  THEN (a - MaxInt32 - 1) + (b - MaxInt32 - 1)
  ELSE IF a < 0 /\ b < MinInt32 - a
  THEN (a + MaxInt32 + 1) + (b + MaxInt32 + 1)
  ELSE a + b

\* The bytes of the two's complement form, lowest first.
Byte(a, j) ==
  IF j = 0 THEN a % 256
  ELSE IF j = 1 THEN (a \div 256) % 256
  ELSE IF j = 2 THEN (a \div 65536) % 256
  ELSE (a \div 16777216) % 256

\* The low 32 bits of the product, by columns of byte products with carries.
MulInt32(a, b) ==
  LET c0 == Byte(a, 0) * Byte(b, 0)
      c1 == Byte(a, 0) * Byte(b, 1) + Byte(a, 1) * Byte(b, 0) + (c0 \div 256)
      c2 == Byte(a, 0) * Byte(b, 2) + Byte(a, 1) * Byte(b, 1)
              + Byte(a, 2) * Byte(b, 0) + (c1 \div 256)
      c3 == Byte(a, 0) * Byte(b, 3) + Byte(a, 1) * Byte(b, 2)
              + Byte(a, 2) * Byte(b, 1) + Byte(a, 3) * Byte(b, 0) + (c2 \div 256)
      top == c3 % 256
  IN  (c0 % 256) + 256 * (c1 % 256) + 65536 * (c2 % 256)
        + 16777216 * (IF top >= 128 THEN top - 256 ELSE top)

\* (page-1)*pageSize, evaluated in int32 as at lines 362 and 437.
PageOffset(page, pageSize) == MulInt32(AddInt32(page, -1), pageSize)

(***************************************************************************)
(* strings.ToLower and strings.Contains.                                   *)
(***************************************************************************)
UpperCase == "ABCDEFGHIJKLMNOPQRSTUVWXYZ"
LowerCase == "abcdefghijklmnopqrstuvwxyz"

LowerMap ==
  [c \in { SubSeq(UpperCase, j, j) : j \in 1..Len(UpperCase) } |->
     LET j == CHOOSE j \in 1..Len(UpperCase) : SubSeq(UpperCase, j, j) = c
     IN  SubSeq(LowerCase, j, j)]

LowerChar(c) == IF c \in DOMAIN LowerMap THEN LowerMap[c] ELSE c

RECURSIVE ToLower(_)
ToLower(s) ==
  IF Len(s) = 0 THEN s
  ELSE LowerChar(SubSeq(s, 1, 1)) \o ToLower(SubSeq(s, 2, Len(s)))

Contains(s, sub) ==
  \E j \in 0..(Len(s) - Len(sub)) : SubSeq(s, j + 1, j + Len(sub)) = sub

(***************************************************************************)
(* ListProducts, scan path (repository.go 389-448, 782-841).               *)
(***************************************************************************)
\* lines 397-423: whether the record under key is fetched, decoded and kept.
Kept(key, category, searchQuery) ==
  /\ store[key] # WrongType
  /\ CanUnmarshal(store[key])
  /\ LET product == Unmarshal(store[key]) IN
     /\ ~(category # "" /\ product.Category # category)
     /\ \/ searchQuery = ""
        \/ Contains(ToLower(product.Name), ToLower(searchQuery))
        \/ Contains(ToLower(product.Description), ToLower(searchQuery))

Filtered(category, searchQuery) ==
  LET sel == SelectSeq(keyOrder, LAMBDA k : Kept(k, category, searchQuery))
  IN  [j \in 1..Len(sel) |-> Unmarshal(store[sel[j]])]

\* lines 430-435.
DefaultPage(page) == IF page < 1 THEN 1 ELSE page
DefaultPageSize(pageSize) == IF pageSize <= 0 THEN 10 ELSE pageSize

\* lines 437-447: the slice bounds. A negative start makes filtered[start:end]
\* panic (slice bounds out of range).
ScanStart(page, pageSize) ==
  PageOffset(DefaultPage(page), DefaultPageSize(pageSize))

\* (A variant whose pages run one record into the next page.)
ScanEndOverlapping(start, pageSize, n) ==
  IF DefaultPageSize(pageSize) >= n - start THEN n
  ELSE start + DefaultPageSize(pageSize) + 1

ScanEnd(start, pageSize, n) ==
  IF DefaultPageSize(pageSize) > n - start THEN n
  ELSE start + DefaultPageSize(pageSize)

\* (A variant that reports the length of the page as the total.)
PaginateCountingPage(filtered, page, pageSize) ==
  LET n     == Len(filtered)
      start == ScanStart(page, pageSize)
      end   == ScanEnd(start, pageSize, n)
  IN  IF n = 0
      THEN [products |-> << >>, total |-> 0, err |-> "none", start |-> 0]
      ELSE IF start < 0
      THEN [products |-> << >>, total |-> 0, err |-> "panic", start |-> start]
      ELSE IF start >= n
      THEN [products |-> << >>, total |-> 0, err |-> "none", start |-> start]
      ELSE [products |-> SubSeq(filtered, start + 1, end),
            total |-> end - start, err |-> "none", start |-> start]

\* lines 425-447.
Paginate(filtered, page, pageSize) ==
  LET n     == Len(filtered)
      start == ScanStart(page, pageSize)
  IN  IF n = 0
      THEN [products |-> << >>, total |-> 0, err |-> "none", start |-> 0]
      ELSE IF start < 0
      THEN [products |-> << >>, total |-> 0, err |-> "panic", start |-> start]
      ELSE IF start >= n
      THEN [products |-> << >>, total |-> n, err |-> "none", start |-> start]
      ELSE [products |-> SubSeq(filtered, start + 1, ScanEnd(start, pageSize, n)),
            total |-> n, err |-> "none", start |-> start]

ListScan(page, pageSize, category, searchQuery, keysOK) ==
  IF ~keysOK
  THEN [products |-> << >>, total |-> 0, err |-> "keys", start |-> 0]
  ELSE Paginate(Filtered(category, searchQuery), page, pageSize)

(***************************************************************************)
(* ListProducts, indexed path (repository.go 356-387, 749-780). The index  *)
(* matches the query text against the text fields of a document, and the   *)
(* category clause against its category; it sorts by price (SetSortBy      *)
(* with ascending = false) and applies offset and limit itself.            *)
(***************************************************************************)
Matches(doc, category, searchQuery) ==
  /\ \/ Contains(ToLower(doc.name), ToLower(searchQuery))
     \/ Contains(ToLower(doc.description), ToLower(searchQuery))
  /\ category = "" \/ doc.category = category

MatchSet(category, searchQuery) ==
  { k \in DOMAIN index : Matches(index[k], category, searchQuery) }

RECURSIVE SortByPriceDesc(_)
SortByPriceDesc(S) ==
  IF S = {} THEN << >>
  ELSE LET top == CHOOSE k \in S : \A l \in S : index[l].price <= index[k].price
       IN  << top >> \o SortByPriceDesc(S \ {top})

\* lines 362: the offset and the limit handed to query.Limit.
IndexOffset(page, pageSize) == PageOffset(page, pageSize)
IndexLimit(page, pageSize) == pageSize

\* search.Search(query): the keys of the requested window and the number of
\* all matches. The index refuses a negative offset or limit.
Search(category, searchQuery, offset, limit) ==
  LET hits == SortByPriceDesc(MatchSet(category, searchQuery))
      n    == Len(hits)
  IN  IF ~indexUp \/ offset < 0 \/ limit < 0
      THEN [err |-> TRUE, docs |-> << >>, total |-> 0]
      ELSE [err |-> FALSE,
            docs |-> IF offset >= n THEN << >>
                     ELSE SubSeq(hits, offset + 1,
                                 IF limit > n - offset THEN n ELSE offset + limit),
            total |-> n]

\* (A variant that hands back a failed record instead of skipping it.)
RefetchAll(docs) ==
  [j \in 1..Len(docs) |->
     IF /\ docs[j] \in Keys(store) /\ store[docs[j]] # WrongType
        /\ CanUnmarshal(store[docs[j]])
     THEN Unmarshal(store[docs[j]]) ELSE NoProduct]

\* lines 369-384: each document is fetched again from the store; a record that
\* cannot be fetched or decoded is skipped.
Refetch(docs) ==
  LET sel == SelectSeq(docs, LAMBDA k : /\ k \in Keys(store)
                                        /\ store[k] # WrongType
                                        /\ CanUnmarshal(store[k]))
  IN  [j \in 1..Len(sel) |-> Unmarshal(store[sel[j]])]

ListIndexed(page, pageSize, category, searchQuery) ==
  LET offset == IndexOffset(page, pageSize)
      res    == Search(category, searchQuery, offset, IndexLimit(page, pageSize))
  IN  IF res.err
      THEN [products |-> << >>, total |-> 0, err |-> "search", start |-> offset]
      ELSE [products |-> Refetch(res.docs), total |-> res.total,
            err |-> "none", start |-> offset]

\* (A variant that scans instead when the index cannot be reached.)
UseSearchIfUp(searchQuery) == searchQuery # "" /\ searchEnabled /\ indexUp

\* line 354.
UseSearch(searchQuery) == searchQuery # "" /\ searchEnabled

(***************************************************************************)
(* Enumerating the keys of the catalog. SCAN (repository.go 233, 258, 282) *)
(* hands out the keys a batch at a time, each reply with the cursor of the *)
(* next batch, 0 with the last one; KEYS (389, 641, 782) hands out every   *)
(* key in one reply. An enumeration is recorded as the command issued, the *)
(* cursors passed to the store and returned by it, whether a call failed   *)
(* and whether every key present was handed out.                           *)
(***************************************************************************)
\* How many keys one reply of SCAN holds (the COUNT argument,
\* seedScanBatchSize, is 1000 as shipped).
MaxBatch == 2

NoEnum == [cmd |-> "none"]
NoEnums == [seed |-> NoEnum, count |-> NoEnum, sample |-> NoEnum]

\* client.Scan(ctx, cursor, pattern, seedScanBatchSize) on success.
Scan(cursor) ==
  LET n    == Len(keyOrder)
      upto == IF cursor + MaxBatch >= n THEN n
              ELSE cursor + MaxBatch
  IN  [keys |-> SubSeq(keyOrder, cursor + 1, upto),
       next |-> IF upto = n THEN 0 ELSE upto]

\* The first call of a SCAN loop fails: the loop returns the error.
ScanFailed ==
  [cmd |-> "SCAN", passed |-> << 0 >>, returned |-> << >>, err |-> TRUE,
   complete |-> FALSE]

\* client.Keys(ctx, productsKeyPrefix+"*"), lines 389-392, 641-644, 782-785.
KeysCommand(ok) ==
  [cmd |-> "KEYS", passed |-> << >>, returned |-> << >>, err |-> ~ok,
   complete |-> ok]

\* collectExistingProductIDs, the loop at lines 232-247; visited is the
\* sequence of the keys handed out so far.
RECURSIVE CollectLoop(_, _, _, _)
CollectLoop(cursor, visited, passed, returned) ==
  LET r == Scan(cursor) IN
  IF r.next = 0
  THEN [cmd |-> "SCAN", passed |-> Append(passed, cursor),
        returned |-> Append(returned, r.next), err |-> FALSE,
        complete |-> SeqToSet(visited \o r.keys) = Keys(store)]
  ELSE CollectLoop(r.next, visited \o r.keys, Append(passed, cursor),
                   Append(returned, r.next))

\* countProducts, the loop at lines 257-272 with shortCircuitAt = minimum;
\* the last reply hands out repeats keys a second time.
RECURSIVE CountLoop(_, _, _, _, _, _)
CountLoop(cursor, total, visited, passed, returned, repeats) ==
  LET r == Scan(cursor)
      t == total + Len(r.keys) + (IF r.next = 0 THEN repeats ELSE 0)
  IN  IF (minimum > 0 /\ t >= minimum) \/ r.next = 0
      THEN [cmd |-> "SCAN", passed |-> Append(passed, cursor),
            returned |-> Append(returned, r.next), err |-> FALSE,
            complete |-> SeqToSet(visited \o r.keys) = Keys(store)]
      ELSE CountLoop(r.next, t, visited \o r.keys, Append(passed, cursor),
                     Append(returned, r.next), repeats)

\* sampleProductID, the loop at lines 281-295: it returns with the first
\* reply that holds a key.
RECURSIVE SampleLoop(_, _, _)
SampleLoop(cursor, passed, returned) ==
  LET r == Scan(cursor) IN
  IF Len(r.keys) > 0 \/ r.next = 0
  THEN [cmd |-> "SCAN", passed |-> Append(passed, cursor),
        returned |-> Append(returned, r.next), err |-> FALSE,
        complete |-> SeqToSet(r.keys) = Keys(store)]
  ELSE SampleLoop(r.next, Append(passed, cursor), Append(returned, r.next))

\* ListProducts: the outcome, with the path taken, the offset and limit used,
\* and how many times the store's keys were enumerated.
ListProducts(page, pageSize, category, searchQuery, keysOK) ==
  IF UseSearch(searchQuery)
  THEN ListIndexed(page, pageSize, category, searchQuery)
         @@ [path |-> "index", limit |-> IndexLimit(page, pageSize),
             keysCalls |-> 0, enum |-> NoEnum]
  ELSE ListScan(page, pageSize, category, searchQuery, keysOK)
         @@ [path |-> "scan", limit |-> DefaultPageSize(pageSize),
             keysCalls |-> 1, enum |-> KeysCommand(keysOK)]

(***************************************************************************)
(* Groups of variables an action leaves alone.                             *)
(***************************************************************************)
configVars == << variant, minimum, indexUp, clock >>
dataVars   == << store, keyOrder, index, storeLog, indexLog >>
serveVars  == << last, made >>

\* The state after a CreateProduct call c.
ApplyCreate(c) ==
  /\ store' = c.store
  /\ keyOrder' = c.keyOrder
  /\ index' = c.index
  /\ storeLog' = c.storeLog
  /\ indexLog' = c.indexLog

(***************************************************************************)
(* NewRedisRepository (repository.go 104-143, 580-619): ping, probe for    *)
(* the search module, create the index, seed, verify.                      *)
(***************************************************************************)
\* lines 111-113: a failed ping returns no repository; main then exits.
Ping(ok) ==
  /\ pc = "ping"
  /\ pc' = IF ok THEN "probe" ELSE "exit"
  /\ UNCHANGED << main, listing, configVars, dataVars, serveVars, searchEnabled, run, seed,
                  verifyErr, hist >>

\* lines 121-126, detectRediSearch 458-463.
DetectRediSearch(ok) ==
  /\ pc = "probe"
  /\ searchEnabled' = ok
  /\ pc' = "createIndex"
  /\ UNCHANGED << main, listing, configVars, dataVars, serveVars, run, seed, verifyErr, hist >>

\* (A variant of createIndex that gives up on search when the index cannot
\* be created.)
CreateIndexOutcomeStrict(ok) ==
  [enabled |-> searchEnabled /\ ok,
   call    |-> IF searchEnabled THEN "called" ELSE "skipped"]

\* createIndex 145-162: without search nothing is called (line 146); an
\* error of search.CreateIndex is only logged (157-160) and nil is returned,
\* so whether the call succeeded (ok) leaves no trace in the repository.
CreateIndexOutcome(ok) ==
  [enabled |-> searchEnabled,
   call    |-> IF searchEnabled THEN "called" ELSE "skipped"]

\* lines 129-131: ok is whether search.CreateIndex succeeds, if it is called.
CreateIndex(ok) ==
  /\ pc = "createIndex"
  /\ ok \/ searchEnabled
  /\ searchEnabled' = CreateIndexOutcome(ok).enabled
  /\ hist' = [hist EXCEPT !.createIndex = CreateIndexOutcome(ok).call]
  /\ pc' = "seed"
  /\ UNCHANGED << main, listing, configVars, dataVars, serveVars, run, seed, verifyErr >>

(***************************************************************************)
(* seedData.                                                               *)
(***************************************************************************)
\* collectExistingProductIDs 227-250 (and lines 641-650 of the small
\* variant): the IDs of the keys present.
\* (A variant that forgets to strip the key prefix.)
ExistingKeysUntrimmed(st) == Keys(st)

ExistingIDs(st) == { TrimPrefix(k) : k \in Keys(st) }

\* (A variant of the return that drops the error.)
SeedReturnNil(err) == [seed EXCEPT !.err = FALSE, !.done = TRUE]

SeedReturn(err) == [seed EXCEPT !.err = err, !.done = TRUE]

\* large variant, lines 165-173.
SeedScanLarge(ok) ==
  /\ pc = "seed" /\ variant = "large"
  /\ IF ~ok
     THEN /\ seed' = SeedReturn(TRUE)
          /\ pc' = "verify"
          /\ hist' = [hist EXCEPT !.enum.seed = ScanFailed]
     ELSE LET existing == ExistingIDs(store) IN
          /\ hist' = [hist EXCEPT !.scanned = TRUE, !.E = existing,
                                  !.enum.seed = CollectLoop(0, << >>, << >>, << >>)]
          /\ IF Cardinality(existing) >= minimum
             THEN /\ seed' = [SeedReturn(FALSE) EXCEPT !.existing = existing]
                  /\ pc' = "verify"
             ELSE /\ seed' = [seed EXCEPT !.existing = existing, !.idx = 1]
                  /\ pc' = "base"
  /\ UNCHANGED << main, listing, configVars, dataVars, serveVars, searchEnabled, run, verifyErr >>

\* small variant, lines 641-650.
SeedScanSmall(ok) ==
  /\ pc = "seed" /\ variant = "small"
  /\ IF ~ok
     THEN /\ seed' = SeedReturn(TRUE)
          /\ pc' = "verify"
          /\ hist' = [hist EXCEPT !.enum.seed = KeysCommand(FALSE)]
     ELSE LET existing == ExistingIDs(store) IN
          /\ hist' = [hist EXCEPT !.scanned = TRUE, !.E = existing,
                                  !.enum.seed = KeysCommand(TRUE)]
          /\ seed' = [seed EXCEPT !.existing = existing, !.idx = 1]
          /\ pc' = "base"
  /\ UNCHANGED << main, listing, configVars, dataVars, serveVars, searchEnabled, run, verifyErr >>

\* lines 175-187 and 652-664: one turn of the loop over seedProducts.
SeedBase(ok) ==
  /\ pc = "base" /\ seed.idx <= Len(seedProducts)
  /\ LET product == seedProducts[seed.idx]
         c == CreateProduct([product EXCEPT !.CreatedAt = Now(clock)], ok)
     IN  IF product.ID \in seed.existing
         THEN /\ ok
              /\ seed' = [seed EXCEPT !.idx = @ + 1]
              /\ pc' = pc
              /\ UNCHANGED dataVars
         ELSE /\ ApplyCreate(c)
              /\ IF c.err # "none"
                 THEN seed' = SeedReturn(TRUE) /\ pc' = "verify"
                 ELSE /\ seed' = [seed EXCEPT !.existing = @ \cup {c.product.ID},
                                              !.idx = @ + 1]
                      /\ pc' = pc
  /\ UNCHANGED << main, listing, configVars, serveVars, searchEnabled, run, verifyErr, hist >>

\* large variant, lines 189-194: after the base records.
SeedAfterBaseLarge ==
  /\ pc = "base" /\ seed.idx > Len(seedProducts) /\ variant = "large"
  /\ IF Cardinality(seed.existing) >= minimum
     THEN seed' = SeedReturn(FALSE) /\ pc' = "verify"
     ELSE seed' = seed /\ pc' = "synth"
  /\ UNCHANGED << main, listing, configVars, dataVars, serveVars, searchEnabled, run,
                  verifyErr, hist >>

\* small variant, line 666.
SeedAfterBaseSmall ==
  /\ pc = "base" /\ seed.idx > Len(seedProducts) /\ variant = "small"
  /\ seed' = [seed EXCEPT !.count = Cardinality(seed.existing)]
  /\ pc' = "synth"
  /\ UNCHANGED << main, listing, configVars, dataVars, serveVars, searchEnabled, run,
                  verifyErr, hist >>

\* line 197: "seed-" and the 32 hex digits of a UUID (abbreviated), r the draw.
UUIDID(r) == "seed-00" \o ToString(r)

\* lines 202-210: the record made from one draw of the generator.
RandomProduct(r, clk) ==
  [ID |-> UUIDID(r), Name |-> "Product " \o ToString(r),
   Description |-> "Description " \o ToString(r), Price |-> 500 + r,
   Category |-> seedCategories[((r - 1) % Len(seedCategories)) + 1],
   Stock |-> r, CreatedAt |-> Now(clk)]

\* large variant, lines 196-224: one turn of the loop.
SeedSynthLarge(r, ok) ==
  /\ pc = "synth" /\ variant = "large"
  /\ IF Cardinality(seed.existing) >= minimum
     THEN /\ r = 1 /\ ok
          /\ seed' = SeedReturn(FALSE) /\ pc' = "verify"
          /\ UNCHANGED dataVars
     ELSE IF UUIDID(r) \in seed.existing
     THEN /\ ok
          /\ UNCHANGED << main, listing, seed, pc, dataVars >>
     ELSE LET c == CreateProduct(RandomProduct(r, clock), ok) IN
          /\ ApplyCreate(c)
          /\ IF c.err # "none"
             THEN seed' = SeedReturn(TRUE) /\ pc' = "verify"
             ELSE /\ seed' = [seed EXCEPT !.existing = @ \cup {c.product.ID}]
                  /\ pc' = pc
  /\ UNCHANGED << main, listing, configVars, serveVars, searchEnabled, run, verifyErr, hist >>

\* line 668.
AutoID(n) == "seed-auto-" \o ToString(n)

\* lines 673-681.
AutoProduct(count, clk) ==
  [ID |-> AutoID(count + 1), Name |-> "Sample Product " \o ToString(count + 1),
   Description |-> "Automatically generated sample product",
   Price |-> 4999 + 100 * count, Category |-> "Sample", Stock |-> 20 + count,
   CreatedAt |-> Now(clk)]

\* small variant, lines 667-690: one turn of the loop.
SeedSynthSmall(ok) ==
  /\ pc = "synth" /\ variant = "small"
  /\ IF seed.count >= minimum
     THEN /\ ok
          /\ seed' = SeedReturn(FALSE) /\ pc' = "verify"
          /\ UNCHANGED dataVars
     ELSE IF AutoID(seed.count + 1) \in seed.existing
     THEN /\ ok
          /\ seed' = [seed EXCEPT !.count = @ + 1]
          /\ pc' = pc
          /\ UNCHANGED dataVars
     ELSE LET c == CreateProduct(AutoProduct(seed.count, clock), ok) IN
          /\ ApplyCreate(c)
          /\ IF c.err # "none"
             THEN seed' = SeedReturn(TRUE) /\ pc' = "verify"
             ELSE /\ seed' = [seed EXCEPT !.existing = @ \cup {c.product.ID},
                                          !.count = @ + 1]
                  /\ pc' = pc
  /\ UNCHANGED << main, listing, configVars, serveVars, searchEnabled, run, verifyErr, hist >>

(***************************************************************************)
(* verifySeedData.                                                         *)
(***************************************************************************)
\* How many keys a cursor iteration hands out a second time.
MaxRepeats == 1

\* countProducts 252-275: total += len(keys) over the batches of SCAN, which
\* may hand out a key more than once (repeats of them).
CountProducts(repeats) == Cardinality(Keys(store)) + repeats

\* large variant, lines 465-489, with countProducts 252-275 and
\* sampleProductID 277-298.
VerifyLarge(scanOK, getOK, repeats) ==
  /\ pc = "verify" /\ variant = "large"
  /\ repeats <= Cardinality(Keys(store))
  /\ verifyErr' =
       \/ ~scanOK
       \/ CountProducts(repeats) < minimum
       \/ keyOrder = << >>
       \/ TrimPrefix(keyOrder[1]) = ""
       \/ GetProduct(TrimPrefix(keyOrder[1]), getOK).outcome # "ok"
  /\ hist' = [hist EXCEPT
       !.enum.count  = IF scanOK
                       THEN CountLoop(0, 0, << >>, << >>, << >>, repeats)
                       ELSE ScanFailed,
       !.enum.sample = IF scanOK /\ CountProducts(repeats) >= minimum
                       THEN SampleLoop(0, << >>, << >>) ELSE NoEnum]
  /\ pc' = "serving"
  /\ UNCHANGED << main, listing, configVars, dataVars, serveVars, searchEnabled, run, seed >>

\* small variant, lines 858-874.
VerifySmall(keysOK) ==
  /\ pc = "verify" /\ variant = "small"
  /\ LET r == ListProducts(1, minimum, "", "", keysOK) IN
     /\ verifyErr' = (r.err # "none" \/ r.total < minimum \/ Len(r.products) = 0)
     /\ hist' = [hist EXCEPT !.enum.count = r.enum]
  /\ pc' = "serving"
  /\ UNCHANGED << main, listing, configVars, dataVars, serveVars, searchEnabled, run, seed >>

(***************************************************************************)
(* The process is started again against the same store.                    *)
(***************************************************************************)
NoRun == [seeded |-> FALSE, store |-> EmptyStore, log |-> << >>]
NoSeed == [existing |-> {}, count |-> 0, idx |-> 0, err |-> FALSE, done |-> FALSE]
NoCall == [op |-> "none"]
\* main() before grpcServer.Serve: no server, Close not called, still running.
NoMain == [server |-> "none", closes |-> 0, exit |-> "none"]
\* No scan-path ListProducts call is in progress.
NoListing == [at |-> "idle"]

Restart ==
  /\ pc = "serving" /\ run = 1
  /\ pc' = "ping"
  /\ run' = run + 1
  /\ searchEnabled' = FALSE
  /\ seed' = NoSeed
  /\ verifyErr' = FALSE
  /\ storeLog' = << >>
  /\ indexLog' = << >>
  /\ hist' = [scanned |-> FALSE, E |-> {}, createIndex |-> "none",
              enum |-> NoEnums,
              prev |-> [seeded |-> seed.done /\ ~seed.err, store |-> store,
                        log |-> storeLog]]
  /\ UNCHANGED << main, listing, configVars, store, keyOrder, index, serveVars >>

(***************************************************************************)
(* Startup against a store that already holds some records: any of the     *)
(* base records and a few others, among them IDs the generators can draw.  *)
(***************************************************************************)
\* The configured minimum: below, at and above the number of base records.
Minimums == {2} \cup (minSeedProducts..MaxMinimum)

\* Which base records are present at startup: none, all, some, all but one.
BaseChoices ==
  { {}, BaseIDs, {"seed-2", "seed-4"}, BaseIDs \ {"seed-3"} }

ExtraIDs ==
  { AutoID(n) : n \in (minSeedProducts + 1)..MaxMinimum }
    \cup { UUIDID(r) : r \in 1..MaxUUID } \cup { "1001" }

InitialIDSets ==
  { B \cup X : B \in BaseChoices,
               X \in { Y \in SUBSET ExtraIDs : Cardinality(Y) <= MaxExtra } }

\* A record written by an earlier run of the service.
EarlierProduct(id) ==
  [ID |-> id, Name |-> "Earlier " \o id, Description |-> "Stored earlier",
   Price |-> 1000, Category |-> "Home", Stock |-> 1,
   CreatedAt |-> [wall |-> 1, mono |-> FALSE]]

StoreOf(ids) ==
  [k \in { keyFor(id) : id \in ids } |-> Marshal(EarlierProduct(TrimPrefix(k)))]

InitSeed ==
  /\ variant \in {"large", "small"}
  /\ minimum \in Minimums
  /\ \E ids \in InitialIDSets :
       /\ store = StoreOf(ids)
       /\ keyOrder = SetToSeq(Keys(StoreOf(ids)))
  /\ index = EmptyStore
  /\ indexUp = TRUE
  /\ clock = 2
  /\ searchEnabled = FALSE
  /\ pc = "ping"
  /\ run = 1
  /\ seed = NoSeed
  /\ verifyErr = FALSE
  /\ storeLog = << >>
  /\ indexLog = << >>
  /\ hist = [scanned |-> FALSE, E |-> {}, prev |-> NoRun, createIndex |-> "none",
            enum |-> NoEnums]
  /\ last = NoCall
  /\ made = EmptyStore
  /\ main = NoMain
  /\ listing = NoListing

NextSeed ==
  \/ \E ok \in BOOLEAN : Ping(ok)
  \/ \E ok \in BOOLEAN : DetectRediSearch(ok)
  \/ \E ok \in BOOLEAN : CreateIndex(ok)
  \/ \E ok \in BOOLEAN : SeedScanLarge(ok)
  \/ \E ok \in BOOLEAN : SeedScanSmall(ok)
  \/ \E ok \in BOOLEAN : SeedBase(ok)
  \/ SeedAfterBaseLarge
  \/ SeedAfterBaseSmall
  \/ \E r \in 1..MaxUUID, ok \in BOOLEAN : SeedSynthLarge(r, ok)
  \/ \E ok \in BOOLEAN : SeedSynthSmall(ok)
  \/ \E scanOK \in BOOLEAN, getOK \in BOOLEAN, repeats \in 0..MaxRepeats :
       VerifyLarge(scanOK, getOK, repeats)
  \/ \E keysOK \in BOOLEAN : VerifySmall(keysOK)
  \/ Restart

SpecSeed == InitSeed /\ [][NextSeed]_vars

(***************************************************************************)
(* Serving. The repository has been constructed; the catalog holds some    *)
(* records, among them a value that does not decode and a key of another   *)
(* type. A call is made (directly, or by the gRPC handler), its outcome is *)
(* kept in last until the caller has it.                                   *)
(***************************************************************************)
\* How many keys the catalog holds when serving starts.
MaxCatalog == 6
\* The largest small page number and page size requested.
MaxPage == 3
MaxPageSize == 3

CatalogID(n) == "p" \o ToString(n)

CatalogProduct(n) ==
  [ID |-> CatalogID(n),
   Name |-> IF n % 3 = 1 THEN "Desk Lamp" ELSE IF n % 3 = 2 THEN "Vase" ELSE "Ball",
   Description |-> IF n % 2 = 0 THEN "Goes with a LAMP" ELSE "Plain",
   Price |-> 1000 + 100 * (n % 3),
   Category |-> IF n % 2 = 0 THEN "Home" ELSE "Toys",
   Stock |-> n,
   CreatedAt |-> [wall |-> 1, mono |-> FALSE]]

CatalogValue(n) ==
  IF n = 3 THEN Corrupt
  ELSE IF n = 5 THEN WrongType
  ELSE Marshal(CatalogProduct(n))

Catalog(n) == [k \in { keyFor(CatalogID(j)) : j \in 1..n } |->
                 CatalogValue(CHOOSE j \in 1..n : keyFor(CatalogID(j)) = k)]

CatalogOrder(n) == [j \in 1..n |-> keyFor(CatalogID(j))]

\* The index in step with the store: a document for every record that decodes.
IndexOf(st) ==
  [k \in { l \in Keys(st) : st[l] # WrongType /\ CanUnmarshal(st[l]) } |->
     Document(Unmarshal(st[k]))]

\* An index that has diverged: its document of the first record is the one of
\* an earlier value of that record (another category), it lacks the document
\* of the fourth record, it still holds a document whose record is gone from
\* the store, and the document of the third record, whose stored value does
\* not decode any more.
DivergedIndexOf(st) ==
  LET synced == IndexOf(st)
      first  == keyFor(CatalogID(1))
      third  == keyFor(CatalogID(3))
      rest   == [k \in DOMAIN synced \ {keyFor(CatalogID(4))} |->
                   IF k = first THEN [synced[k] EXCEPT !.category = "Home"]
                   ELSE synced[k]]
      undec  == [k \in {third} \cap Keys(st) |-> Document(CatalogProduct(1))]
  IN  (keyFor("gone") :> Document(CatalogProduct(2))) @@ undec @@ rest

InitServing ==
  /\ variant = "large"
  /\ minimum = minSeedProducts
  /\ \E n \in 0..MaxCatalog :
       /\ store = Catalog(n)
       /\ keyOrder = CatalogOrder(n)
       /\ index \in { IndexOf(Catalog(n)), DivergedIndexOf(Catalog(n)) }
  /\ indexUp \in BOOLEAN
  /\ clock = 2
  /\ searchEnabled \in BOOLEAN
  /\ pc = "serving"
  /\ run = 1
  /\ seed = [NoSeed EXCEPT !.done = TRUE]
  /\ verifyErr = FALSE
  /\ storeLog = << >>
  /\ indexLog = << >>
  /\ hist = [scanned |-> FALSE, E |-> {}, prev |-> NoRun,
            createIndex |-> IF searchEnabled THEN "called" ELSE "skipped",
            enum |-> NoEnums]
  /\ last = NoCall
  /\ made = EmptyStore
  /\ main = NoMain
  /\ listing = NoListing

Pages == (-1..MaxPage) \cup {21474838, 1073741825, MaxInt32}
PageSizes == (-1..MaxPageSize) \cup {100, MaxInt32}
Categories == {"", "Home"}
Queries == {"", "lAmp", "zzz"}

\* A direct call of RedisRepository.ListProducts.
CallListProducts(page, pageSize, category, searchQuery, keysOK) ==
  /\ pc = "serving" /\ last.op = "none"
  /\ last' = [op |-> "list", via |-> "direct", page |-> page,
              pageSize |-> pageSize, category |-> category,
              searchQuery |-> searchQuery, keysOK |-> keysOK,
              indexUp |-> indexUp]
               @@ ListProducts(page, pageSize, category, searchQuery, keysOK)
  /\ UNCHANGED << main, listing, configVars, dataVars, searchEnabled, pc, run, seed,
                  verifyErr, hist, made >>

\* server.go 27-35: the handler's defaults and its clamp of the page size.
HandlerPage(reqPage) == IF reqPage <= 0 THEN 1 ELSE reqPage
HandlerPageSize(reqPageSize) ==
  IF reqPageSize <= 0 THEN 10
  ELSE IF reqPageSize > 100 THEN 100 ELSE reqPageSize

\* ProductsServer.ListProducts (server.go 26-68). Nothing recovers a panic
\* of the repository call: the process ends.
HandleListProducts(reqPage, reqPageSize, category, searchQuery, keysOK) ==
  /\ pc = "serving" /\ last.op = "none"
  /\ LET page     == HandlerPage(reqPage)
         pageSize == HandlerPageSize(reqPageSize)
         r == ListProducts(page, pageSize, category, searchQuery, keysOK)
     IN  /\ last' = [op |-> "list", via |-> "grpc", page |-> page,
                     pageSize |-> pageSize, category |-> category,
                     searchQuery |-> searchQuery, keysOK |-> keysOK,
                     indexUp |-> indexUp] @@ r
         /\ pc' = IF r.err = "panic" THEN "crashed" ELSE pc
  /\ UNCHANGED << main, listing, configVars, dataVars, searchEnabled, run, seed, verifyErr,
                  hist, made >>

\* A call of RedisRepository.GetProduct.
CallGetProduct(id, getOK) ==
  /\ pc = "serving" /\ last.op = "none"
  /\ last' = [op |-> "get", id |-> id, getOK |-> getOK]
               @@ GetProduct(id, getOK)
  /\ UNCHANGED << main, listing, configVars, dataVars, searchEnabled, pc, run, seed,
                  verifyErr, hist, made >>

\* server.go 76-79: the status code of the answer, from the outcome of
\* repo.GetProduct; every error is answered with codes.NotFound.
GetProductCode(outcome) == IF outcome = "ok" THEN "OK" ELSE "NotFound"

\* ProductsServer.GetProduct (server.go 70-90): an empty id is refused before
\* the repository is called.
HandleGetProduct(reqId, getOK) ==
  /\ pc = "serving" /\ last.op = "none"
  /\ reqId = "" => getOK
  /\ last' =
       IF reqId = ""
       THEN [op |-> "rpcGet", id |-> reqId, getOK |-> getOK, called |-> FALSE,
             code |-> "InvalidArgument", outcome |-> "none",
             product |-> NoProduct]
       ELSE LET r == GetProduct(reqId, getOK) IN
            [op |-> "rpcGet", id |-> reqId, getOK |-> getOK, called |-> TRUE,
             code |-> GetProductCode(r.outcome)] @@ r
  /\ UNCHANGED << main, listing, configVars, dataVars, searchEnabled, pc, run,
                  seed, verifyErr, hist, made >>

\* The caller has the outcome.
Return ==
  /\ pc = "serving" /\ last.op # "none"
  /\ last' = NoCall
  /\ UNCHANGED << main, listing, configVars, dataVars, searchEnabled, pc, run, seed,
                  verifyErr, hist, made >>

\* The search index becomes unreachable, or reachable again.
IndexFlip ==
  /\ pc = "serving" /\ last.op = "none"
  /\ indexUp' = ~indexUp
  /\ UNCHANGED << main, listing, variant, minimum, clock, dataVars, searchEnabled, pc, run,
                  seed, verifyErr, hist, last, made >>

NextList ==
  \/ \E page \in Pages, pageSize \in PageSizes, category \in Categories,
        searchQuery \in Queries, keysOK \in BOOLEAN :
       CallListProducts(page, pageSize, category, searchQuery, keysOK)
  \/ \E page \in Pages, pageSize \in PageSizes, category \in Categories,
        searchQuery \in Queries, keysOK \in BOOLEAN :
       HandleListProducts(page, pageSize, category, searchQuery, keysOK)
  \/ \E n \in 1..MaxCatalog, getOK \in BOOLEAN :
       CallGetProduct(CatalogID(n), getOK)
  \/ \E reqId \in {""} \cup { CatalogID(n) : n \in 1..MaxCatalog },
        getOK \in BOOLEAN :
       HandleGetProduct(reqId, getOK)
  \/ Return
  \/ IndexFlip

SpecList == InitServing /\ [][NextList]_vars

(***************************************************************************)
(* Serving CreateProduct and GetProduct. Calls are made one after another  *)
(* or within the same reading of the clock (two handlers running at the    *)
(* same nanosecond).                                                       *)
(***************************************************************************)
\* How many CreateProduct calls are made, and how far the clock runs.
MaxCreates == 2
MaxClock == 3

RequestIDs == {"", "p1", "k"}
RequestNames == {"Lamp", "Vase"}
RequestTimes == {ZeroTime, [wall |-> 1, mono |-> FALSE]}
LookupIDs == {"p3", "k", "missing"} \cup { ToString(c) : c \in 2..MaxClock }

RequestPrices == {1500, NaN}

Request(id, name, price, at) ==
  [ID |-> id, Name |-> name, Description |-> "Plain", Price |-> price,
   Category |-> "Home", Stock |-> 1, CreatedAt |-> at]

Handed(id, q) ==
  IF id \in DOMAIN made THEN [made EXCEPT ![id] = @ \cup {q}]
  ELSE (id :> {q}) @@ made

InitCreate ==
  /\ variant = "large"
  /\ minimum = minSeedProducts
  /\ store = Catalog(3)
  /\ keyOrder = CatalogOrder(3)
  /\ index = IndexOf(Catalog(3))
  /\ indexUp \in BOOLEAN
  /\ clock = 2
  /\ searchEnabled \in BOOLEAN
  /\ searchEnabled \/ indexUp
  /\ pc = "serving"
  /\ run = 1
  /\ seed = [NoSeed EXCEPT !.done = TRUE]
  /\ verifyErr = FALSE
  /\ storeLog = << >>
  /\ indexLog = << >>
  /\ hist = [scanned |-> FALSE, E |-> {}, prev |-> NoRun,
            createIndex |-> IF searchEnabled THEN "called" ELSE "skipped",
            enum |-> NoEnums]
  /\ last = NoCall
  /\ made = [k \in {} |-> {}]
  /\ main = NoMain
  /\ listing = NoListing

\* A call of RedisRepository.CreateProduct.
CallCreateProduct(p, setOK) ==
  /\ pc = "serving" /\ last.op = "none"
  /\ Len(storeLog) < MaxCreates
  /\ LET c == CreateProduct(p, setOK) IN
     /\ ApplyCreate(c)
     /\ last' = [op |-> "create", product |-> c.product, err |-> c.err,
                 setOK |-> setOK, indexUp |-> indexUp]
     /\ made' = IF c.err = "none" THEN Handed(c.product.ID, c.product)
                ELSE made
  /\ UNCHANGED << main, listing, configVars, searchEnabled, pc, run, seed, verifyErr, hist >>

\* server.go 96: req.Price < 0, which is false of NaN.
Negative(price) == price # NaN /\ price < 0

\* (A variant of the handler's checks without the one of the price.)
CreateRequestInvalidNameOnly(name, price) == name = ""

\* server.go 93-98: the requests the handler refuses.
CreateRequestInvalid(name, price) == name = "" \/ Negative(price)

\* ProductsServer.CreateProduct (server.go 92-122): the request carries no ID
\* and no creation time; a repository error is answered with codes.Internal.
HandleCreateProduct(name, price, setOK) ==
  /\ pc = "serving" /\ last.op = "none"
  /\ IF CreateRequestInvalid(name, price)
     THEN /\ setOK
          /\ last' = [op |-> "rpcCreate", name |-> name, price |-> price,
                      called |-> FALSE, code |-> "InvalidArgument"]
          /\ UNCHANGED << dataVars, made >>
     ELSE /\ Len(storeLog) < MaxCreates
          /\ LET c == CreateProduct(Request("", name, price, ZeroTime), setOK)
             IN  /\ ApplyCreate(c)
                 /\ last' = [op |-> "rpcCreate", name |-> name, price |-> price,
                             called |-> TRUE,
                             code |-> IF c.err = "none" THEN "OK" ELSE "Internal",
                             product |-> c.product, err |-> c.err]
                 /\ made' = IF c.err = "none"
                            THEN Handed(c.product.ID, c.product) ELSE made
  /\ UNCHANGED << main, listing, configVars, searchEnabled, pc, run, seed,
                  verifyErr, hist >>

\* Time passes.
Tick ==
  /\ pc = "serving" /\ clock < MaxClock
  /\ clock' = clock + 1
  /\ UNCHANGED << main, listing, variant, minimum, indexUp, dataVars, searchEnabled, pc, run,
                  seed, verifyErr, hist, last, made >>

Next ==
  \/ \E id \in RequestIDs, name \in RequestNames, price \in RequestPrices,
        at \in RequestTimes, setOK \in BOOLEAN :
       CallCreateProduct(Request(id, name, price, at), setOK)
  \/ \E id \in LookupIDs, getOK \in BOOLEAN : CallGetProduct(id, getOK)
  \/ \E searchQuery \in {"", "lAmp"} :
       CallListProducts(1, 2, "", searchQuery, TRUE)
  \/ Tick
  \/ Return

Spec == InitCreate /\ [][Next]_vars

(***************************************************************************)
(* ListProducts on the scan path, step by step (repository.go 389-448,     *)
(* 782-841): the KEYS call, one GET for each key of its reply, then the    *)
(* slice. Other handlers run CreateProduct between any two of these steps. *)
(***************************************************************************)
\* How many stored values decode to a record.
CatalogSize(st) ==
  Cardinality({ k \in Keys(st) : st[k] # WrongType /\ CanUnmarshal(st[k]) })

\* lines 353-354, 389-395: the call takes the scan path and issues KEYS; the
\* keys of the reply are what the loop runs over.
ListKeys(page, pageSize, category, searchQuery, keysOK) ==
  /\ pc = "serving" /\ listing.at = "idle"
  /\ ~UseSearch(searchQuery)
  /\ listing' =
       [at |-> IF keysOK THEN "loop" ELSE "done",
        page |-> page, pageSize |-> pageSize, category |-> category,
        searchQuery |-> searchQuery,
        allKeys |-> IF keysOK THEN keyOrder ELSE << >>,
        i |-> 1, filtered |-> << >>, getFailed |-> FALSE,
        snapshot |-> store, before |-> CatalogSize(store),
        after |-> CatalogSize(store),
        result |-> ListScan(page, pageSize, category, searchQuery, FALSE)]
  /\ UNCHANGED << main, configVars, dataVars, serveVars, searchEnabled, pc, run,
                  seed, verifyErr, hist >>

\* lines 397-423: one turn of the loop, reading the value now stored under
\* the key; a value that cannot be read or decoded is skipped.
ListGetOne(getOK) ==
  /\ listing.at = "loop" /\ listing.i <= Len(listing.allKeys)
  /\ LET key  == listing.allKeys[listing.i]
         keep == /\ getOK
                 /\ key \in Keys(store)
                 /\ Kept(key, listing.category, listing.searchQuery)
     IN  listing' =
           [listing EXCEPT
              !.i = @ + 1,
              !.filtered = IF keep THEN Append(@, Unmarshal(store[key])) ELSE @,
              !.getFailed = @ \/ ~getOK]
  /\ UNCHANGED << main, configVars, dataVars, serveVars, searchEnabled, pc, run,
                  seed, verifyErr, hist >>

\* lines 425-447: total and the page are taken from filtered.
ListSlice ==
  /\ listing.at = "loop" /\ listing.i > Len(listing.allKeys)
  /\ listing' =
       [listing EXCEPT
          !.at = "done",
          !.after = CatalogSize(store),
          !.result = Paginate(listing.filtered, listing.page, listing.pageSize)]
  /\ UNCHANGED << main, configVars, dataVars, serveVars, searchEnabled, pc, run,
                  seed, verifyErr, hist >>

\* The caller has the page and the total.
ListDone ==
  /\ listing.at = "done"
  /\ listing' = NoListing
  /\ UNCHANGED << main, configVars, dataVars, serveVars, searchEnabled, pc, run,
                  seed, verifyErr, hist >>

NextConcurrent ==
  \/ \E page \in 1..2, pageSize \in 1..2, category \in Categories,
        searchQuery \in {"", "lAmp"}, keysOK \in BOOLEAN :
       ListKeys(page, pageSize, category, searchQuery, keysOK)
  \/ \E getOK \in BOOLEAN : ListGetOne(getOK)
  \/ ListSlice
  \/ ListDone
  \/ \E id \in RequestIDs, setOK \in BOOLEAN :
       CallCreateProduct(Request(id, "Lamp", 1500, ZeroTime), setOK)
  \/ Return

SpecConcurrent == InitCreate /\ [][NextConcurrent]_vars

(***************************************************************************)
(* Properties of seeding, checked under SpecSeed.                          *)
(***************************************************************************)
NoDuplicates(q) == Cardinality(SeqToSet(q)) = Len(q)
BaseKeys == { keyFor(id) : id \in BaseIDs }
Max(a, b) == IF a >= b THEN a ELSE b
SeedSucceeded == seed.done /\ ~seed.err

\* C1: when seeding ran to completion without error and the process is then
\* started again against the same store, the second seeding writes nothing:
\* the store, and so its record count, is what the first run left, and no ID
\* was written twice over the two runs.
C1_SecondSeedingWritesNothing ==
  (run = 2 /\ hist.prev.seeded) =>
     /\ storeLog = << >>
     /\ store = hist.prev.store
     /\ Cardinality(Keys(store)) = Cardinality(Keys(hist.prev.store))
     /\ NoDuplicates(hist.prev.log \o storeLog)
     /\ NoDuplicates(keyOrder)

\* C1 witness: a second seeding has completed after a first one that wrote
\* base and synthetic records.
C1_Witness ==
  /\ run = 2 /\ hist.prev.seeded /\ SeedSucceeded /\ pc = "serving"
  /\ \E j \in 1..Len(hist.prev.log) : hist.prev.log[j] \in BaseKeys
  /\ \E j \in 1..Len(hist.prev.log) : hist.prev.log[j] \notin BaseKeys

\* C2: when the enumeration finds at least the configured minimum of records,
\* seeding writes nothing to the store and nothing to the index, in both
\* variants.
C2_NoWriteWhenMinimumMet ==
  (hist.scanned /\ Cardinality(hist.E) >= minimum) =>
     (storeLog = << >> /\ indexLog = << >>)

Passing(category, searchQuery) ==
  { k \in Keys(store) : Kept(k, category, searchQuery) }

PassingRecords(category, searchQuery) ==
  { Unmarshal(store[k]) : k \in Passing(category, searchQuery) }

\* ceil(n / p) for n >= 1, p >= 1.
PageCount(n, p) == 1 + ((n - 1) \div p)

RECURSIVE Concat(_, _)
Concat(f, n) == IF n = 0 THEN << >> ELSE Concat(f, n - 1) \o f[n]

ListCall == last.op = "list"
SucceededList == ListCall /\ last.err = "none"

\* The pages 1..ceil(N/P) of a listing on the scan path partition the
\* filtered set.
PagesPartition(category, searchQuery, P) ==
  LET F == PassingRecords(category, searchQuery)
      N == Cardinality(F)
      pages == [p \in 1..PageCount(N, P) |->
                  ListProducts(p, P, category, searchQuery, TRUE)]
      all == Concat([p \in DOMAIN pages |-> pages[p].products],
                    PageCount(N, P))
  IN  N >= 1 =>
        /\ \A p \in DOMAIN pages :
             /\ pages[p].err = "none"
             /\ pages[p].total = N
             /\ Len(pages[p].products) =
                  IF p < PageCount(N, P) THEN P
                  ELSE IF N % P = 0 THEN P ELSE N % P
        /\ \A p, q \in DOMAIN pages :
             p # q => SeqToSet(pages[p].products)
                        \cap SeqToSet(pages[q].products) = {}
        /\ SeqToSet(all) = F
        /\ Len(all) = N

\* C5: on the scan path, with the store unchanged, for every filtered set of
\* size N >= 1 and every page size P >= 1, the pages 1..ceil(N/P) are pairwise
\* disjoint and together are exactly the filtered set, every page before the
\* last has P records, the last has N mod P (P when that is 0), and every one
\* of these calls returns total = N. Stated for the calls that can be made
\* from a state where the service is idle, and for the call that was made.
C5_PagesPartitionFilteredSet ==
  /\ (pc = "serving" /\ last.op = "none") =>
       \A category \in Categories, searchQuery \in Queries, P \in PageSizes :
         (P >= 1 /\ ~UseSearch(searchQuery)) =>
            PagesPartition(category, searchQuery, P)
  /\ (/\ SucceededList /\ last.path = "scan" /\ last.pageSize >= 1
      /\ last.page >= 1 /\ last.total >= 1
      /\ last.page <= PageCount(last.total, last.pageSize)) =>
       /\ last.total = Cardinality(Passing(last.category, last.searchQuery))
       /\ SeqToSet(last.products)
            \subseteq PassingRecords(last.category, last.searchQuery)
       /\ Len(last.products) =
            IF last.page < PageCount(last.total, last.pageSize)
            THEN last.pageSize
            ELSE IF last.total % last.pageSize = 0 THEN last.pageSize
            ELSE last.total % last.pageSize

\* C5 witness: the last page of a listing of several pages was returned, and
\* it is shorter than the others.
C5_Witness ==
  /\ SucceededList /\ last.path = "scan" /\ last.keysOK
  /\ last.pageSize >= 2 /\ last.total > last.pageSize
  /\ last.page = PageCount(last.total, last.pageSize)
  /\ last.total % last.pageSize # 0
  /\ Len(last.products) = last.total % last.pageSize

\* (page-1)*pageSize >= n as mathematical integers, for page, pageSize, n >= 1.
BeyondLastPage(page, pageSize, n) == page - 1 >= PageCount(n, pageSize)

\* C6: on the scan path, for every 32-bit page >= 1 and pageSize >= 1 and
\* every non-empty filtered set of size N, a call with (page-1)*pageSize >= N
\* returns an empty page with total = N and no error or fault, and the start
\* offset used to slice is never negative and never exceeds N, also when the
\* product does not fit in 32 bits.
C6_BeyondLastPageIsEmpty ==
  (/\ ListCall /\ last.path = "scan" /\ last.keysOK
   /\ last.page >= 1 /\ last.pageSize >= 1
   /\ Passing(last.category, last.searchQuery) # {}) =>
     LET N == Cardinality(Passing(last.category, last.searchQuery)) IN
     /\ last.err # "panic"
     /\ last.start >= 0
     /\ last.products # << >> => last.start <= N
     /\ BeyondLastPage(last.page, last.pageSize, N) =>
          /\ last.err = "none"
          /\ last.products = << >>
          /\ last.total = N

\* (page-1)*pageSize fits in 32 bits, for page, pageSize >= 1.
FitsInt32(page, pageSize) == page - 1 <= MaxInt32 \div pageSize

\* C7: ListProducts replaces page < 1 by 1 and pageSize <= 0 by 10 before any
\* offset, limit or slice bound is computed, on both paths: the offset and
\* limit handed to the index are (page'-1)*pageSize' >= 0 and pageSize' >= 1
\* of the defaulted values (where that product fits in 32 bits), and the
\* scan-path result is that of the call made with the defaulted values.
C7_DefaultsOnBothPaths ==
  ListCall =>
    LET page     == DefaultPage(last.page)
        pageSize == DefaultPageSize(last.pageSize)
        same == ListProducts(page, pageSize, last.category, last.searchQuery,
                             last.keysOK)
    IN  /\ (last.path = "index" /\ FitsInt32(page, pageSize)) =>
             /\ last.start = PageOffset(page, pageSize)
             /\ last.start >= 0
             /\ last.limit = pageSize
             /\ last.limit >= 1
        /\ last.path = "scan" =>
             /\ last.products = same.products
             /\ last.total = same.total
             /\ last.err = same.err

\* Whether the search of the recorded call failed.
SearchFailed == ~last.indexUp \/ last.start < 0 \/ last.limit < 0

\* C8: ListProducts takes the indexed path exactly when searchQuery is
\* non-empty and the search index is enabled, the scan path otherwise; on the
\* indexed path a failing search makes the call return an error with no
\* products and total 0, and the store's keys are never enumerated instead.
C8_HardBranch ==
  ListCall =>
    /\ last.path = "index" <=> (last.searchQuery # "" /\ searchEnabled)
    /\ last.path = "scan" <=> ~(last.searchQuery # "" /\ searchEnabled)
    /\ last.path = "index" => last.keysCalls = 0
    /\ (last.path = "index" /\ SearchFailed) =>
         /\ last.err = "search"
         /\ last.products = << >>
         /\ last.total = 0

\* C8 witness: the search failed on the indexed path although a scan of the
\* store would have found records.
C8_Witness ==
  /\ ListCall /\ last.path = "index" /\ ~last.indexUp
  /\ last.err = "search" /\ last.keysCalls = 0
  /\ Passing(last.category, last.searchQuery) # {}

\* C9: for every successful ListProducts call, total is the size of the full
\* match set, whatever page and pageSize: on the scan path the number of
\* stored records that pass the filters, on the indexed path the match count
\* of the index; a call that differs only in page and pageSize (page 1 of
\* size 1) on the same store and index returns the same total.
C9_TotalIsFullMatchCount ==
  SucceededList =>
    /\ last.path = "scan" =>
         last.total = Cardinality(Passing(last.category, last.searchQuery))
    /\ last.path = "index" =>
         last.total = Cardinality(MatchSet(last.category, last.searchQuery))
    /\ LET other == ListProducts(1, 1, last.category, last.searchQuery, TRUE)
       IN  other.err = "none" /\ other.total = last.total

\* C9 witness: a successful call returned a page beyond the first that is
\* shorter than the total.
C9_Witness ==
  /\ SucceededList /\ last.path = "scan" /\ last.page >= 2
  /\ Len(last.products) >= 1 /\ Len(last.products) < last.total

(***************************************************************************)
(* Properties of CreateProduct and GetProduct, checked under Spec.         *)
(***************************************************************************)
\* Equal in every field; CreatedAt is compared as an instant.
SameRecord(a, b) ==
  /\ a.ID = b.ID /\ a.Name = b.Name /\ a.Description = b.Description
  /\ a.Price = b.Price /\ a.Category = b.Category /\ a.Stock = b.Stock
  /\ a.CreatedAt.wall = b.CreatedAt.wall

\* C10: after a successful CreateProduct, GetProduct called with the ID the
\* call assigned or kept returns a record equal in every field to the record
\* CreateProduct handed back, whatever other calls ran in between.
C10_RoundTrip ==
  (last.op = "get" /\ last.getOK /\ last.id \in DOMAIN made) =>
     /\ last.outcome = "ok"
     /\ \A q \in made[last.id] : SameRecord(last.product, q)

(***************************************************************************)
(* Further properties of ListProducts, checked under SpecList.             *)
(***************************************************************************)
\* C11: every record returned by ListProducts called with a non-empty
\* category c has Category exactly c, on the scan path and on the indexed
\* path, also when the index entry of a key differs from the record stored
\* under that key.
C11_CategoryExact ==
  (ListCall /\ last.category # "") =>
     \A j \in 1..Len(last.products) :
        last.products[j].Category = last.category

(***************************************************************************)
(* Further properties of CreateProduct and GetProduct, checked under Spec. *)
(***************************************************************************)
GetCall == last.op = "get"

\* C12: GetProduct(id) for an id with no record under "product:"+id returns
\* the not-found outcome and never a store-read or decode error (the store
\* answering); for a key that is present it returns the decoded record; a
\* store failure yields the store-read error and an undecodable value the
\* decode error; the error outcomes exclude each other and none of them
\* returns a product.
C12_GetOutcomes ==
  GetCall =>
    LET key == keyFor(last.id) IN
    /\ last.outcome \in {"ok", "notfound", "readerr", "decodeerr"}
    /\ (last.getOK /\ key \notin Keys(store)) => last.outcome = "notfound"
    /\ (last.getOK /\ key \in Keys(store) /\ CanUnmarshal(store[key])) =>
         /\ last.outcome = "ok"
         /\ last.product = Unmarshal(store[key])
         /\ last.product.ID = last.id
    /\ ~last.getOK => last.outcome = "readerr"
    /\ (/\ last.getOK /\ key \in Keys(store) /\ store[key] # WrongType
        /\ ~CanUnmarshal(store[key])) => last.outcome = "decodeerr"
    /\ last.outcome = "notfound" => key \notin Keys(store)
    /\ last.outcome # "ok" => last.product = NoProduct

\* C12 witness: after a create, an id that has no record was looked up and
\* the answer was not-found.
C12_Witness ==
  /\ GetCall /\ last.getOK /\ keyFor(last.id) \notin Keys(store)
  /\ last.outcome = "notfound" /\ last.product = NoProduct
  /\ storeLog # << >>

\* C13: CreateProduct succeeds if and only if marshalling and the store
\* write succeed; a failed index write after a successful store write is only
\* logged: the call returns no error and the record is in the store. With the
\* search index disabled the calls make no index call and behave as on a
\* store-only repository.
C13_StoreWriteIsAuthoritative ==
  /\ last.op = "create" =>
       /\ last.err = "none" <=> (CanMarshal(last.product) /\ last.setOK)
       /\ last.err = "none" =>
            /\ keyFor(last.product.ID) \in Keys(store)
            /\ store[keyFor(last.product.ID)] = Marshal(last.product)
       /\ last.err # "none" => last.err \in {"marshal", "set"}
  /\ ~searchEnabled =>
       /\ indexLog = << >>
       /\ index = IndexOf(Catalog(3))
       /\ ListCall =>
            /\ last.path = "scan"
            /\ last.products =
                 ListScan(last.page, last.pageSize, last.category,
                          last.searchQuery, last.keysOK).products

\* C13 witness: a create returned no error although its index write failed,
\* and the record is in the store and not in the index.
C13_Witness ==
  /\ last.op = "create" /\ last.err = "none"
  /\ searchEnabled /\ ~last.indexUp
  /\ keyFor(last.product.ID) \in Keys(store)
  /\ keyFor(last.product.ID) \notin DOMAIN index
  /\ indexLog # << >>

\* C14: across any sequence of repository operations the set of product keys
\* only grows and the value stored under a key never changes after its first
\* write: no operation deletes a record and none overwrites one.
C14_WriteOnce ==
  [][\A k \in Keys(store) : k \in Keys(store') /\ store'[k] = store[k]]_vars

\* The keys of the IDs CreateProduct can assign (callers supply no such ID).
AssignedKeys == { keyFor(ToString(c)) : c \in 2..MaxClock }

\* The store writes of the successful creates in which the ID was omitted.
AssignedWrites == SelectSeq(storeLog, LAMBDA k : k \in AssignedKeys)

\* C15: every successful CreateProduct call in which the caller omitted the ID
\* adds one new record: any two such calls are assigned different IDs, so the
\* catalog grows by exactly the number of such creates and none of their
\* records is overwritten by another.
C15_AssignedIDsDistinct ==
  /\ NoDuplicates(AssignedWrites)
  /\ Cardinality(Keys(store) \cap AssignedKeys) = Len(AssignedWrites)

(***************************************************************************)
(* Further properties of startup, checked under SpecSeed.                  *)
(***************************************************************************)
\* A turn of the base loop that attempts a write.
BaseWriteAttempt ==
  /\ pc = "base" /\ seed.idx <= Len(seedProducts)
  /\ seedProducts[seed.idx].ID \notin seed.existing

\* C16: when a store write fails during seeding, seedData stops at that write
\* (no later record is written), returns an error, and the records written
\* before remain in the store; NewRedisRepository then runs verification and
\* returns a repository; the only construction failure is a failed ping, with
\* no repository returned.
C16_SeedingStopsAtFailedWrite ==
  [][/\ (BaseWriteAttempt /\ store' = store) =>
          (seed'.done /\ seed'.err /\ pc' = "verify")
     /\ (pc \in {"base", "synth"} /\ seed'.err) =>
          (store' = store /\ storeLog' = storeLog /\ seed'.done
             /\ pc' = "verify")
     /\ (seed.done /\ seed.err /\ run' = run) =>
          /\ pc = "verify" /\ pc' = "serving"
          /\ store' = store /\ storeLog' = storeLog
          /\ SeqToSet(storeLog) \subseteq Keys(store')
     /\ pc' = "exit" => (pc = "ping" /\ seed = NoSeed /\ storeLog = << >>)
    ]_vars

\* C16 witness: a write failed after other records had been written, and the
\* repository was returned with those records in the store.
C16_Witness ==
  /\ pc = "serving" /\ seed.done /\ seed.err
  /\ storeLog # << >> /\ SeqToSet(storeLog) \subseteq Keys(store)
  /\ Cardinality(Keys(store)) < minimum

\* The stored records that decode.
Records == { k \in Keys(store) : store[k] # WrongType /\ CanUnmarshal(store[k]) }

\* C17: verifySeedData returns success only when the store contains at least
\* the configured minimum number of distinct product records and at least one
\* stored record was fetched and decoded; in every other case it returns an
\* error (which the constructor only logs).
C17_VerifiedMeansMinimum ==
  (pc = "serving" /\ ~verifyErr) =>
     /\ Cardinality(Keys(store)) >= minimum
     /\ Records # {}

(***************************************************************************)
(* main (cmd/products-service/main.go 43-84): the repository is built, the *)
(* gRPC server is started, requests are served until the process is told   *)
(* to stop or a fatal error ends it. logger.Fatal exits the process at     *)
(* once: deferred calls do not run.                                        *)
(***************************************************************************)
\* (A variant in which the server is started while verification still runs.)
ConstructedEarly == pc \in {"verify", "serving"}

\* main.go 44-48: NewRedisRepository has returned a repository.
Constructed == pc = "serving"

Running == Constructed /\ main.exit = "none"

\* main.go 61-70: net.Listen, then Serve in its goroutine; a failure to
\* listen is fatal.
Listen(ok) ==
  /\ Running /\ main.server = "none"
  /\ IF ok
     THEN main' = [main EXCEPT !.server = "serving"] /\ pc' = pc
     ELSE main' = [main EXCEPT !.exit = "fatal"] /\ pc' = "exit"
  /\ UNCHANGED << listing, configVars, dataVars, serveVars, searchEnabled, run, seed,
                  verifyErr, hist >>

\* main.go 66-70: Serve returns an error, which is fatal.
ServeFails ==
  /\ Running /\ main.server = "serving"
  /\ main' = [main EXCEPT !.exit = "fatal"]
  /\ pc' = "exit"
  /\ UNCHANGED << listing, configVars, dataVars, serveVars, searchEnabled, run, seed,
                  verifyErr, hist >>

\* main.go 77-82: the signal arrives and GracefulStop returns once the
\* requests in progress have been answered.
GracefulStop ==
  /\ Running /\ main.server = "serving" /\ last.op = "none"
  /\ main' = [main EXCEPT !.server = "stopped"]
  /\ UNCHANGED << listing, configVars, dataVars, serveVars, searchEnabled, pc, run,
                  seed, verifyErr, hist >>

\* RedisRepository.Close (repository.go 450-452), deferred at main.go 48 and
\* run when main returns at line 84.
MainReturn ==
  /\ Running /\ main.server = "stopped"
  /\ main' = [main EXCEPT !.closes = @ + 1, !.exit = "return"]
  /\ pc' = "exit"
  /\ UNCHANGED << listing, configVars, dataVars, serveVars, searchEnabled, run, seed,
                  verifyErr, hist >>

\* The requests the gRPC server dispatches while it serves.
ServeGetProduct(id, getOK) ==
  main.server = "serving" /\ main.exit = "none" /\ HandleGetProduct(id, getOK)

ServeListProducts(page, category, searchQuery) ==
  /\ main.server = "serving" /\ main.exit = "none"
  /\ HandleListProducts(page, 2, category, searchQuery, TRUE)

ServeCreateProduct(name, price, setOK) ==
  /\ main.server = "serving" /\ main.exit = "none"
  /\ HandleCreateProduct(name, price, setOK)

ServeReturn == main.server = "serving" /\ main.exit = "none" /\ Return

\* req.Price: a price, a negative one, NaN.
TransportPrices == {1500, -500, NaN}

MainMinimums == {minSeedProducts, minSeedProducts + 1}
MainStores == { StoreOf({}), StoreOf({"seed-2", "seed-4"}),
                StoreOf(BaseIDs \cup {"1001"}) }

InitMain ==
  /\ variant \in {"large", "small"}
  /\ minimum \in MainMinimums
  /\ store \in MainStores
  /\ keyOrder = SetToSeq(Keys(store))
  /\ index = EmptyStore
  /\ indexUp = TRUE
  /\ clock = 2
  /\ searchEnabled = FALSE
  /\ pc = "ping"
  /\ run = 1
  /\ seed = NoSeed
  /\ verifyErr = FALSE
  /\ storeLog = << >>
  /\ indexLog = << >>
  /\ hist = [scanned |-> FALSE, E |-> {}, prev |-> NoRun, createIndex |-> "none",
            enum |-> NoEnums]
  /\ last = NoCall
  /\ made = [k \in {} |-> {}]
  /\ main = NoMain
  /\ listing = NoListing

NextMain ==
  \/ \E ok \in BOOLEAN : Ping(ok)
  \/ \E ok \in BOOLEAN : DetectRediSearch(ok)
  \/ \E ok \in BOOLEAN : CreateIndex(ok)
  \/ \E ok \in BOOLEAN : SeedScanLarge(ok)
  \/ \E ok \in BOOLEAN : SeedScanSmall(ok)
  \/ \E ok \in BOOLEAN : SeedBase(ok)
  \/ SeedAfterBaseLarge
  \/ SeedAfterBaseSmall
  \/ \E r \in 1..MaxUUID, ok \in BOOLEAN : SeedSynthLarge(r, ok)
  \/ \E ok \in BOOLEAN : SeedSynthSmall(ok)
  \/ \E scanOK \in BOOLEAN, getOK \in BOOLEAN, repeats \in 0..MaxRepeats :
       VerifyLarge(scanOK, getOK, repeats)
  \/ \E keysOK \in BOOLEAN : VerifySmall(keysOK)
  \/ \E ok \in BOOLEAN : Listen(ok)
  \/ \E id \in {"", "seed-1", "missing"}, getOK \in BOOLEAN :
       ServeGetProduct(id, getOK)
  \/ \E page \in 1..2, category \in Categories, searchQuery \in {"", "lAmp"} :
       ServeListProducts(page, category, searchQuery)
  \/ \E name \in {"", "Lamp"}, price \in TransportPrices, setOK \in BOOLEAN :
       ServeCreateProduct(name, price, setOK)
  \/ ServeReturn
  \/ ServeFails
  \/ GracefulStop
  \/ MainReturn

SpecMain == InitMain /\ [][NextMain]_vars

(***************************************************************************)
(* Properties of main, checked under SpecMain.                             *)
(***************************************************************************)
\* The steps of NewRedisRepository, in the order the constructor takes them.
StartupSteps == {"ping", "probe", "createIndex", "seed", "base", "synth", "verify"}

StartupOrder ==
  { <<"ping", "probe">>, <<"ping", "exit">>, <<"probe", "createIndex">>,
    <<"createIndex", "seed">>, <<"seed", "base">>, <<"seed", "verify">>,
    <<"base", "synth">>, <<"base", "verify">>, <<"synth", "verify">>,
    <<"verify", "serving">>, <<"serving", "exit">> }

\* C18: startup runs in the order ping, probe, create the index, seed, verify,
\* and the gRPC server starts serving only after NewRedisRepository has
\* returned: no request is executed while seeding or verification is still
\* running, so no request-time write interleaves with the seeding writes.
C18_ServeAfterStartup ==
  [][/\ pc' # pc => << pc, pc' >> \in StartupOrder
     /\ pc' = "serving" => seed'.done
     /\ main'.server # "none" => pc' \in {"serving", "exit"}
     /\ pc \in StartupSteps => (last' = last /\ made' = made)
     /\ (last' # last /\ last'.op # "none") =>
          (pc = "serving" /\ seed.done /\ main.server = "serving")
    ]_vars

\* C18 witness: a request is answered by the server after a startup that
\* seeded records.
C18_Witness ==
  /\ pc = "serving" /\ main.server = "serving" /\ last.op # "none"
  /\ seed.done /\ \E j \in 1..Len(storeLog) : storeLog[j] \in BaseKeys

\* C19: on every path by which the service shuts down after the repository
\* was constructed (signal, failure to listen, failure of Serve), Close is
\* called exactly once on the repository, and only after the gRPC server has
\* stopped.
C19_CloseOnceAfterStop ==
  /\ main.closes <= 1
  /\ main.closes = 1 => main.server = "stopped"
  /\ (pc = "exit" /\ main.exit # "none") => main.closes = 1

(***************************************************************************)
(* Per-record failures, checked under SpecList.                            *)
(***************************************************************************)
\* The records of the keys a set names, those that can be fetched and decoded.
RecordsOf(S) == { Unmarshal(store[k]) : k \in S \cap Records }

\* C20: in ListProducts, on both paths, a record whose fetch or decode fails
\* is skipped and the call still succeeds with the remaining records; in
\* GetProduct the same failure is returned to the caller as an error.
C20_PerRecordFailures ==
  /\ (ListCall /\ last.path = "scan" /\ last.keysOK /\ last.err # "panic") =>
       /\ last.err = "none"
       /\ SeqToSet(last.products)
            \subseteq PassingRecords(last.category, last.searchQuery)
       /\ (last.page = 1 /\ last.pageSize = 100) =>
            SeqToSet(last.products)
              = PassingRecords(last.category, last.searchQuery)
  /\ (ListCall /\ last.path = "index" /\ ~SearchFailed) =>
       /\ last.err = "none"
       /\ SeqToSet(last.products)
            \subseteq RecordsOf(MatchSet(last.category, last.searchQuery))
       /\ (last.page = 1 /\ last.pageSize = 100) =>
            SeqToSet(last.products)
              = RecordsOf(MatchSet(last.category, last.searchQuery))
  /\ (GetCall /\ keyFor(last.id) \in Keys(store) \ Records) =>
       /\ last.outcome \in {"readerr", "decodeerr"}
       /\ last.product = NoProduct

\* C20 witness: a listing on the indexed path succeeded with records although
\* some of its hits could not be fetched or decoded.
C20_Witness ==
  /\ ListCall /\ last.path = "index" /\ last.err = "none"
  /\ last.page = 1 /\ last.pageSize = 100 /\ last.products # << >>
  /\ \E k \in MatchSet(last.category, last.searchQuery) : k \notin Keys(store)
  /\ \E k \in MatchSet(last.category, last.searchQuery) :
       k \in Keys(store) /\ ~CanUnmarshal(store[k])

(***************************************************************************)
(* The search capability, checked under SpecMain.                          *)
(***************************************************************************)
\* NewRedisRepository is past its probe (lines 121-126).
Probed == pc \notin {"ping", "probe"}

\* A step that hands back the outcome of a ListProducts call.
ListAnswered == last' # last /\ last'.op = "list"

\* C21: the search capability is decided once, by the probe of
\* NewRedisRepository: no later step changes the flag; when the probe failed,
\* createIndex calls nothing, CreateProduct hands nothing to the index, the
\* index is left alone and a ListProducts call with a search query runs the
\* scan path; when the probe succeeded, createIndex calls the index, and an
\* error of that call leaves the flag enabled.
C21_SearchDecidedOnce ==
  [][ /\ Probed => searchEnabled' = searchEnabled
      /\ (Probed /\ ~searchEnabled) =>
           /\ indexLog' = indexLog
           /\ index' = index
           /\ hist'.createIndex \in {hist.createIndex, "skipped"}
           /\ ListAnswered => last'.path = "scan" /\ last'.keysCalls = 1
      /\ (pc = "createIndex" /\ searchEnabled) =>
           /\ hist'.createIndex = "called"
           /\ searchEnabled'
    ]_vars

\* The probe failed, and since then createIndex has run, CreateProduct has
\* written a record and a ListProducts call with a search query has been
\* answered from the scan.
C21_Witness ==
  /\ pc = "serving" /\ ~searchEnabled
  /\ hist.createIndex = "skipped"
  /\ storeLog # << >> /\ indexLog = << >>
  /\ last.op = "list" /\ last.searchQuery # "" /\ last.path = "scan"

(***************************************************************************)
(* Enumerating the keys, checked under SpecMain.                           *)
(***************************************************************************)
\* The enumerations made so far by this process: seeding's membership scan,
\* verification's count and sample, and the one of the list call just
\* answered.
Enumerations ==
  ({ hist.enum.seed, hist.enum.count, hist.enum.sample }
     \cup (IF last.op = "list" THEN { last.enum } ELSE {})) \ { NoEnum }

\* A cursor-driven enumeration: it starts at cursor 0, passes on each cursor
\* the store returned, and on success ends exactly with the reply whose
\* cursor is 0, having been handed every key present.
CursorDriven(e) ==
  /\ e.cmd = "SCAN"
  /\ e.passed # << >> /\ e.passed[1] = 0
  /\ \A j \in 1..(Len(e.passed) - 1) : e.passed[j + 1] = e.returned[j]
  /\ ~e.err =>
       /\ Len(e.returned) = Len(e.passed)
       /\ \A j \in 1..Len(e.returned) : e.returned[j] = 0 <=> j = Len(e.returned)
       /\ e.complete

\* C22: every enumeration of the catalog's keys (seeding's membership scan,
\* verification's count and sample, the scan-path listing) is cursor-driven
\* and complete, and one that fails hands no partial result to its caller:
\* seeding returns the error with no IDs collected, verification fails, the
\* list call returns the error with no records.
C22_CursorEnumeration ==
  /\ \A e \in Enumerations : CursorDriven(e)
  /\ (hist.enum.seed # NoEnum /\ hist.enum.seed.err) =>
       seed.err /\ seed.existing = {}
  /\ (hist.enum.count # NoEnum /\ hist.enum.count.err) => verifyErr
  /\ (last.op = "list" /\ last.enum # NoEnum /\ last.enum.err) =>
       last.err = "keys" /\ last.products = << >> /\ last.total = 0

(***************************************************************************)
(* A listing that runs while records are created, checked under            *)
(* SpecConcurrent.                                                         *)
(***************************************************************************)
\* A scan-path call has finished without a failed read.
Listed ==
  listing.at = "done" /\ listing.result.err = "none" /\ ~listing.getFailed

\* The records successful CreateProduct calls wrote after the KEYS call of
\* the listing: those handed back whose value the snapshot does not hold.
CreatedAfterSnapshot ==
  { q \in UNION { made[id] : id \in DOMAIN made } :
      \/ keyFor(q.ID) \notin Keys(listing.snapshot)
      \/ listing.snapshot[keyFor(q.ID)] # Marshal(q) }

\* q is a run of consecutive elements of f.
IsSliceOf(q, f) ==
  \E a \in 0..Len(f) :
    a + Len(q) <= Len(f) /\ q = SubSeq(f, a + 1, a + Len(q))

\* C23: a scan-path ListProducts call that runs while CreateProduct calls
\* are made takes total and the page from one key snapshot and one filtered
\* list: total is the length of that list, the page is a run of consecutive
\* elements of it, no longer than total or the page size; a record created
\* after the snapshot is in neither; and the total of an unfiltered call lies
\* between the catalog size when the call started and when it returned.
C23_SnapshotListing ==
  Listed =>
    LET r == listing.result
        f == listing.filtered
    IN  /\ r.total = Len(f)
        /\ IsSliceOf(r.products, f)
        /\ Len(r.products) <= r.total
        /\ Len(r.products) <= DefaultPageSize(listing.pageSize)
        /\ \A q \in CreatedAfterSnapshot :
             \A j \in 1..Len(f) : f[j] # Unmarshal(Marshal(q))
        /\ (listing.category = "" /\ listing.searchQuery = "") =>
             listing.before <= r.total /\ r.total <= listing.after

(***************************************************************************)
(* The answers of the gRPC handlers: GetProduct checked under SpecList,     *)
(* the refused requests under SpecMain.                                    *)
(***************************************************************************)
\* The handler of GetProduct has called the repository and answered.
GetAnswered == last.op = "rpcGet" /\ last.called

\* C24: the GetProduct handler answers NotFound only when the record is
\* absent from the store; a store read failure and a record that does not
\* decode are answered with another status than NotFound (and than OK).
C24_NotFoundOnlyWhenAbsent ==
  GetAnswered =>
    /\ last.code = "NotFound" =>
         (last.outcome = "notfound" /\ keyFor(last.id) \notin Keys(store))
    /\ last.outcome \in {"readerr", "decodeerr"} =>
         last.code \notin {"NotFound", "OK"}

\* A step in which a handler answers a request.
Answers(op) == last' # last /\ last'.op = op

\* The step leaves the store and the index alone.
RepositoryUntouched ==
  /\ store' = store /\ keyOrder' = keyOrder /\ storeLog' = storeLog
  /\ index' = index /\ indexLog' = indexLog

\* C25: the handlers refuse an invalid request before they touch the
\* repository: CreateProduct with an empty name or a negative price, and
\* GetProduct with an empty id, are answered InvalidArgument with no
\* repository call, the store and the index unchanged; so no record with an
\* empty name or a negative price is created through the transport.
C25_InvalidRequestsRefused ==
  [][ /\ (Answers("rpcCreate") /\ (last'.name = "" \/ Negative(last'.price))) =>
           /\ last'.code = "InvalidArgument" /\ ~last'.called
           /\ RepositoryUntouched /\ made' = made
      /\ (Answers("rpcGet") /\ last'.id = "") =>
           /\ last'.code = "InvalidArgument" /\ ~last'.called
           /\ RepositoryUntouched
      /\ (Answers("rpcCreate") /\ store' # store) =>
           /\ last'.called /\ last'.code = "OK"
           /\ LET q == Unmarshal(store'[keyFor(last'.product.ID)]) IN
              q.Name # "" /\ ~Negative(q.Price) /\ q.Name = last'.name
      /\ \A id \in DOMAIN made' : \A q \in made'[id] :
           q.Name # "" /\ ~Negative(q.Price)
    ]_vars

\* A request with a negative price has been refused by a server whose
\* repository holds records and has search enabled.
C25_Witness ==
  /\ main.server = "serving" /\ searchEnabled /\ Keys(store) # {}
  /\ last.op = "rpcCreate" /\ last.name # "" /\ Negative(last.price)
  /\ last.code = "InvalidArgument"

====
